---- MODULE Spec2Model ----
(***************************************************************************)
(* AccountSequenceNumber (src/transactions/management/                     *)
(* accountSequenceNumber.ts): many async callers share one instance.       *)
(* JavaScript runs each caller without preemption between two awaits, so   *)
(* every action below is one synchronous segment of nextSequenceNumber()   *)
(* or synchronize(): from the resumption of one await to the next await    *)
(* or to the return.                                                       *)
(***************************************************************************)
EXTENDS Integers, Sequences, FiniteSets

\* ------------------------------------------------------------------ bounds
NumCallers == 3
MaxCalls == 3
MaxMaximumInFlight == 2

Callers == 1..NumCallers

\* ------------------------------------------------------- program constants
\* `null` of the two bigint | null fields; sequence numbers are >= 0
Null == -1
\* let nextNumber = BigInt(0): the value returned when the try block throws
InitialNextNumber == 0
\* constructor argument maxWaitTime, in ticks of nowInSeconds()
maxWaitTime == 1
\* on-chain sequence numbers the account may have at construction
InitialSequenceNumbers == {5}

VARIABLES
  lastUncommintedNumber,  \* field: sequence number on chain, Null before init
  currentNumber,          \* field: local sequence number, Null before init
  lock,                   \* field: the boolean spin lock
  maximumInFlight,        \* field: constructor argument
  remote,                 \* sequence_number getInfo() answers with
  pc,                     \* per caller: the await it is suspended at
  elapsed,                \* per caller: nowInSeconds() - startTime, saturated
  nextNumber,             \* per caller: the local nextNumber of its last
                          \* nextSequenceNumber(), which the call returns
  done,                   \* per caller: "none" while its call runs, then how
                          \* the call ended: "alloc", "sync", "sync_fast" or,
                          \* from the catch block, the await that rejected
  calls,                  \* number of calls made so far
  returned,               \* numbers issued, in the order the calls left the try block
  fetchedAtInit,          \* value stored by the first successful initialize()
  forced,                 \* some initialize() ran from a maxWaitTime branch
  fetchFailed,            \* some getInfo() rejected
  waiters                 \* callers whose running call had to wait at line 100
                          \* or 226, in the order they began to wait

vars == <<lastUncommintedNumber, currentNumber, lock, maximumInFlight, remote,
          pc, elapsed, nextNumber, done, calls, returned,
          fetchedAtInit, forced, fetchFailed, waiters>>

\* awaits inside the try block of nextSequenceNumber()
AllocFetchPcs == {"alloc_init", "alloc_update1", "alloc_reinit", "alloc_update"}
AllocCS == AllocFetchPcs \cup {"alloc_sleep"}
\* awaits inside the try block of synchronize()
SyncFetchPcs == {"sync_update1", "sync_reinit", "sync_update"}
SyncCS == SyncFetchPcs \cup {"sync_sleep"}
\* awaits at which startTime is live
TimedPcs == {"alloc_sleep", "alloc_reinit", "alloc_update",
             "sync_sleep", "sync_reinit", "sync_update"}

InCS(c) == pc[c] \in AllocCS \cup SyncCS

Init ==
  /\ lastUncommintedNumber = Null
  /\ currentNumber = Null
  /\ lock = FALSE
  /\ maximumInFlight \in 1..MaxMaximumInFlight
  /\ remote \in InitialSequenceNumbers
  /\ pc = [c \in Callers |-> "idle"]
  /\ elapsed = [c \in Callers |-> 0]
  /\ nextNumber = [c \in Callers |-> Null]
  /\ done = [c \in Callers |-> "none"]
  /\ calls = 0
  /\ returned = <<>>
  /\ fetchedAtInit = Null
  /\ forced = FALSE
  /\ fetchFailed = FALSE
  /\ waiters = <<>>

\* ----------------------------------------------------------------- helpers
\* mutation of LockFree: the spin loop is left without looking at the lock
LockIgnored == TRUE

\* while (this.lock) { await sleep } falls through
LockFree == ~lock

\* mutation of WindowFull: the window counts one transaction too many
WindowFullAtZero(cur, last) == cur - last >= maximumInFlight - 1

\* mutation of WindowFull: > in place of >=
WindowFullStrict(cur, last) == cur - last > maximumInFlight

\* this.currentNumber - this.lastUncommintedNumber >= this.maximumInFlight
WindowFull(cur, last) == cur - last >= maximumInFlight

\* mutation of Increment: the counter skips a number
IncrementTwice(cur) == cur + 2

\* mutation of Increment: the counter is not advanced
IncrementNone(cur) == cur

\* this.currentNumber += BigInt(1)
Increment(cur) == cur + 1

\* mutation of TimedOut: >= in place of >
TimedOutEarly(el) == el >= maxWaitTime

\* mutation of TimedOut: the stall is noticed one second late
TimedOutLate(el) == el > maxWaitTime + 1

\* nowInSeconds() - startTime > this.maxWaitTime
TimedOut(el) == el > maxWaitTime

\* mutation of Finally: the lock is released at the end of the try block only
FinallyOnlyOnSuccess(threw) == threw

\* finally { this.lock = false }: value of lock after the finally block
Finally(threw) == FALSE

\* mutation of NextNumberOnThrow: nextNumber is read before the fetch
NextNumberOnThrowStale(local, cur) == cur

\* value of the local nextNumber when the catch block runs: line 128 has not
\* run, so it is what line 105 stored
NextNumberOnThrow(local, cur) == local

\* mutation of InitialCurrent: the local counter starts one past the chain's
InitialCurrentNext(sequenceNumber) == sequenceNumber + 1

\* initialize(): this.currentNumber = BigInt(sequenceNumber)
InitialCurrent(sequenceNumber) == sequenceNumber

\* mutation of SyncPending: the poll loop runs only while the chain is behind
SyncPendingBehind(cur, last) == last < cur

\* mutation of SyncPending: null fields count as not synchronized
SyncPendingOrNull(cur, last) == last # cur \/ cur = Null

\* this.lastUncommintedNumber !== this.currentNumber
SyncPending(cur, last) == last # cur

\* lines 100-102, 226-228: c joins the waiters when its call starts to spin
\* and leaves them when the call returns
WaitersStep(c) ==
  waiters' = IF pc[c] = "idle" /\ pc'[c] \in {"alloc_spin", "sync_spin"}
             THEN Append(waiters, c)
             ELSE IF pc'[c] = "idle"
                  THEN SelectSeq(waiters, LAMBDA d : d # c)
                  ELSE waiters

\* elapsed of caller c becomes el, everybody else's is kept
SetElapsed(c, el) == elapsed' = [elapsed EXCEPT ![c] = el]

\* lines 128-135: nextNumber = currentNumber; currentNumber += 1; finally; return
Issue(c, cur, last) ==
  /\ currentNumber' = Increment(cur)
  /\ lastUncommintedNumber' = last
  /\ lock' = Finally(FALSE)
  /\ pc' = [pc EXCEPT ![c] = "idle"]
  /\ nextNumber' = [nextNumber EXCEPT ![c] = cur]
  /\ done' = [done EXCEPT ![c] = "alloc"]
  /\ returned' = Append(returned, cur)
  /\ SetElapsed(c, 0)

\* mutation of AllocLoop: the loop polls again without sleeping
AllocLoopNoSleep(c, cur, last, el) ==
  IF WindowFull(cur, last)
  THEN /\ currentNumber' = cur
       /\ lastUncommintedNumber' = last
       /\ lock' = lock
       /\ pc' = [pc EXCEPT ![c] = "alloc_update"]
       /\ SetElapsed(c, el)
       /\ UNCHANGED <<nextNumber, done, returned>>
  ELSE Issue(c, cur, last)

\* line 115: the while condition of the window loop, with the fields at (cur, last)
AllocLoop(c, cur, last, el) ==
  IF WindowFull(cur, last)
  THEN /\ currentNumber' = cur
       /\ lastUncommintedNumber' = last
       /\ lock' = lock
       /\ pc' = [pc EXCEPT ![c] = "alloc_sleep"]
       /\ SetElapsed(c, el)
       /\ UNCHANGED <<nextNumber, done, returned>>
  ELSE Issue(c, cur, last)

\* mutation of AllocEnter: update() is called before the window is looked at
AllocEnterAlwaysUpdates(c) ==
  /\ lock' = TRUE
  /\ nextNumber' = [nextNumber EXCEPT ![c] = InitialNextNumber]
  /\ done' = [done EXCEPT ![c] = "none"]
  /\ pc' = [pc EXCEPT ![c] =
              IF lastUncommintedNumber = Null \/ currentNumber = Null
              THEN "alloc_init" ELSE "alloc_update1"]
  /\ UNCHANGED <<currentNumber, lastUncommintedNumber, returned, elapsed>>

\* lines 104-112: lock taken, lazy initialize or window check
AllocEnter(c) ==
  IF lastUncommintedNumber = Null \/ currentNumber = Null
  THEN /\ lock' = TRUE
       /\ nextNumber' = [nextNumber EXCEPT ![c] = InitialNextNumber]
       /\ done' = [done EXCEPT ![c] = "none"]
       /\ pc' = [pc EXCEPT ![c] = "alloc_init"]
       /\ UNCHANGED <<currentNumber, lastUncommintedNumber, returned, elapsed>>
  ELSE IF WindowFull(currentNumber, lastUncommintedNumber)
       THEN /\ lock' = TRUE
            /\ nextNumber' = [nextNumber EXCEPT ![c] = InitialNextNumber]
            /\ done' = [done EXCEPT ![c] = "none"]
            /\ pc' = [pc EXCEPT ![c] = "alloc_update1"]
            /\ UNCHANGED <<currentNumber, lastUncommintedNumber, returned,
                           elapsed>>
       ELSE Issue(c, currentNumber, lastUncommintedNumber)

\* line 235: the while condition of synchronize(), then the maxWaitTime test
SyncLoop(c, cur, last, el) ==
  /\ currentNumber' = cur
  /\ lastUncommintedNumber' = last
  /\ UNCHANGED <<nextNumber, returned>>
  /\ IF SyncPending(cur, last)
     THEN /\ lock' = lock
          /\ pc' = [pc EXCEPT ![c] = IF TimedOut(el) THEN "sync_reinit"
                                                     ELSE "sync_sleep"]
          /\ SetElapsed(c, el)
          /\ UNCHANGED done
     ELSE /\ lock' = Finally(FALSE)
          /\ pc' = [pc EXCEPT ![c] = "idle"]
          /\ done' = [done EXCEPT ![c] = "sync"]
          /\ SetElapsed(c, 0)

\* mutation of SyncEnter: synchronize() does not take the lock
SyncEnterNoLock(c) ==
  /\ lock' = lock
  /\ pc' = [pc EXCEPT ![c] = "sync_update1"]
  /\ done' = [done EXCEPT ![c] = "none"]
  /\ UNCHANGED <<currentNumber, lastUncommintedNumber, nextNumber, returned,
                 elapsed>>

\* lines 230-233: lock taken, first update() started
SyncEnter(c) ==
  /\ lock' = TRUE
  /\ pc' = [pc EXCEPT ![c] = "sync_update1"]
  /\ done' = [done EXCEPT ![c] = "none"]
  /\ UNCHANGED <<currentNumber, lastUncommintedNumber, nextNumber, returned,
                 elapsed>>

\* ------------------------------------------------- nextSequenceNumber()
\* a caller invokes nextSequenceNumber(): lines 98-104 run synchronously
AllocCall(c) ==
  /\ pc[c] = "idle"
  /\ calls < MaxCalls
  /\ calls' = calls + 1
  /\ IF LockFree
     THEN AllocEnter(c)
     ELSE /\ pc' = [pc EXCEPT ![c] = "alloc_spin"]
          /\ done' = [done EXCEPT ![c] = "none"]
          /\ UNCHANGED <<currentNumber, lastUncommintedNumber, lock,
                         nextNumber, returned, elapsed>>
  /\ UNCHANGED <<maximumInFlight, remote, fetchedAtInit, forced, fetchFailed>>
  /\ WaitersStep(c)

\* mutation of AllocSpinWake: the lock is handed to the longest waiting caller
AllocSpinWakeFifo(c) ==
  /\ pc[c] = "alloc_spin"
  /\ LockFree
  /\ \A i \in 1..Len(waiters) :
        pc[waiters[i]] \in {"alloc_spin", "sync_spin"}
          => \E j \in 1..i : waiters[j] = c
  /\ AllocEnter(c)
  /\ UNCHANGED <<maximumInFlight, remote, calls, fetchedAtInit, forced,
                 fetchFailed>>
  /\ WaitersStep(c)

\* mutation of AllocSpinWake: the resumed caller does not test the lock again
AllocSpinWakeNoRecheck(c) ==
  /\ pc[c] = "alloc_spin"
  /\ AllocEnter(c)
  /\ UNCHANGED <<maximumInFlight, remote, calls, fetchedAtInit, forced,
                 fetchFailed>>
  /\ WaitersStep(c)

\* line 101 resumes and line 100 finds the lock free
AllocSpinWake(c) ==
  /\ pc[c] = "alloc_spin"
  /\ LockFree
  /\ AllocEnter(c)
  /\ UNCHANGED <<maximumInFlight, remote, calls, fetchedAtInit, forced,
                 fetchFailed>>
  /\ WaitersStep(c)

\* line 108: the lazy initialize() resolves
AllocInitDone(c) ==
  /\ pc[c] = "alloc_init"
  /\ IF WindowFull(InitialCurrent(remote), remote)
     THEN /\ currentNumber' = InitialCurrent(remote)
          /\ lastUncommintedNumber' = remote
          /\ lock' = lock
          /\ pc' = [pc EXCEPT ![c] = "alloc_update1"]
          /\ UNCHANGED <<nextNumber, done, returned, elapsed>>
     ELSE Issue(c, InitialCurrent(remote), remote)
  /\ fetchedAtInit' = IF fetchedAtInit = Null THEN remote ELSE fetchedAtInit
  /\ UNCHANGED <<maximumInFlight, remote, calls, forced, fetchFailed>>
  /\ WaitersStep(c)

\* line 112: the first update() resolves; startTime = nowInSeconds()
AllocUpdate1Done(c) ==
  /\ pc[c] = "alloc_update1"
  /\ AllocLoop(c, currentNumber, remote, 0)
  /\ UNCHANGED <<maximumInFlight, remote, calls, fetchedAtInit, forced,
                 fetchFailed>>
  /\ WaitersStep(c)

\* mutation of AllocSleepWake: the loop goes on only when nobody waits for the lock
AllocSleepWakeYields(c) ==
  /\ pc[c] = "alloc_sleep"
  /\ \A d \in Callers : pc[d] \notin {"alloc_spin", "sync_spin"}
  /\ pc' = [pc EXCEPT ![c] = IF TimedOut(elapsed[c]) THEN "alloc_reinit"
                                                     ELSE "alloc_update"]
  /\ UNCHANGED <<lastUncommintedNumber, currentNumber, lock, maximumInFlight,
                 remote, elapsed, nextNumber, done, calls, returned,
                 fetchedAtInit, forced, fetchFailed>>
  /\ WaitersStep(c)

\* line 116 resumes; line 117 picks initialize() or update()
AllocSleepWake(c) ==
  /\ pc[c] = "alloc_sleep"
  /\ pc' = [pc EXCEPT ![c] = IF TimedOut(elapsed[c]) THEN "alloc_reinit"
                                                     ELSE "alloc_update"]
  /\ UNCHANGED <<lastUncommintedNumber, currentNumber, lock, maximumInFlight,
                 remote, elapsed, nextNumber, done, calls, returned,
                 fetchedAtInit, forced, fetchFailed>>
  /\ WaitersStep(c)

\* mutation of AllocReinitDone: the stall branch refreshes the chain value only
AllocReinitDoneKeepsCounter(c) ==
  /\ pc[c] = "alloc_reinit"
  /\ AllocLoop(c, currentNumber, remote, elapsed[c])
  /\ forced' = TRUE
  /\ UNCHANGED <<maximumInFlight, remote, calls, fetchedAtInit, fetchFailed>>
  /\ WaitersStep(c)

\* line 122: the forced initialize() resolves
AllocReinitDone(c) ==
  /\ pc[c] = "alloc_reinit"
  /\ AllocLoop(c, InitialCurrent(remote), remote, elapsed[c])
  /\ forced' = TRUE
  /\ UNCHANGED <<maximumInFlight, remote, calls, fetchedAtInit, fetchFailed>>
  /\ WaitersStep(c)

\* mutation of AllocUpdateDone: the poll stores the fetched value in both fields
AllocUpdateDoneResets(c) ==
  /\ pc[c] = "alloc_update"
  /\ AllocLoop(c, remote, remote, elapsed[c])
  /\ UNCHANGED <<maximumInFlight, remote, calls, fetchedAtInit, forced,
                 fetchFailed>>
  /\ WaitersStep(c)

\* line 124: update() in the window loop resolves
AllocUpdateDone(c) ==
  /\ pc[c] = "alloc_update"
  /\ AllocLoop(c, currentNumber, remote, elapsed[c])
  /\ UNCHANGED <<maximumInFlight, remote, calls, fetchedAtInit, forced,
                 fetchFailed>>
  /\ WaitersStep(c)

\* mutation of AllocFetchFailed: the catch block clears the local counter
AllocFetchFailedForgets(c) ==
  /\ pc[c] \in AllocFetchPcs
  /\ lock' = Finally(TRUE)
  /\ pc' = [pc EXCEPT ![c] = "idle"]
  /\ nextNumber' = [nextNumber EXCEPT ![c] = NextNumberOnThrow(nextNumber[c], currentNumber)]
  /\ done' = [done EXCEPT ![c] = pc[c]]
  /\ SetElapsed(c, 0)
  /\ fetchFailed' = TRUE
  /\ currentNumber' = Null
  /\ UNCHANGED <<lastUncommintedNumber, maximumInFlight, remote,
                 calls, returned, fetchedAtInit, forced>>
  /\ WaitersStep(c)

\* lines 130-135: getInfo() rejects at any await of the try block
AllocFetchFailed(c) ==
  /\ pc[c] \in AllocFetchPcs
  /\ lock' = Finally(TRUE)
  /\ pc' = [pc EXCEPT ![c] = "idle"]
  /\ nextNumber' = [nextNumber EXCEPT ![c] = NextNumberOnThrow(nextNumber[c], currentNumber)]
  /\ done' = [done EXCEPT ![c] = pc[c]]
  /\ SetElapsed(c, 0)
  /\ fetchFailed' = TRUE
  /\ UNCHANGED <<lastUncommintedNumber, currentNumber, maximumInFlight, remote,
                 calls, returned, fetchedAtInit, forced>>
  /\ WaitersStep(c)

\* ---------------------------------------------------------- synchronize()
\* mutation of SyncCall: the lock is waited for before the fields are compared
SyncCallWaitsFirst(c) ==
  /\ pc[c] = "idle"
  /\ calls < MaxCalls
  /\ calls' = calls + 1
  /\ IF ~LockFree
     THEN /\ pc' = [pc EXCEPT ![c] = "sync_spin"]
          /\ done' = [done EXCEPT ![c] = "none"]
          /\ UNCHANGED <<currentNumber, lastUncommintedNumber, lock,
                         nextNumber, returned, elapsed>>
     ELSE IF ~SyncPending(currentNumber, lastUncommintedNumber)
          THEN /\ done' = [done EXCEPT ![c] = "sync_fast"]
               /\ UNCHANGED <<currentNumber, lastUncommintedNumber, lock, pc,
                              nextNumber, returned, elapsed>>
          ELSE SyncEnter(c)
  /\ UNCHANGED <<maximumInFlight, remote, fetchedAtInit, forced, fetchFailed>>
  /\ WaitersStep(c)

\* a caller invokes synchronize(): lines 222-233 run synchronously
SyncCall(c) ==
  /\ pc[c] = "idle"
  /\ calls < MaxCalls
  /\ calls' = calls + 1
  /\ IF ~SyncPending(currentNumber, lastUncommintedNumber)
     THEN /\ done' = [done EXCEPT ![c] = "sync_fast"]
          /\ UNCHANGED <<currentNumber, lastUncommintedNumber, lock, pc,
                         nextNumber, returned, elapsed>>
     ELSE IF LockFree
          THEN SyncEnter(c)
          ELSE /\ pc' = [pc EXCEPT ![c] = "sync_spin"]
               /\ done' = [done EXCEPT ![c] = "none"]
               /\ UNCHANGED <<currentNumber, lastUncommintedNumber, lock,
                              nextNumber, returned, elapsed>>
  /\ UNCHANGED <<maximumInFlight, remote, fetchedAtInit, forced, fetchFailed>>
  /\ WaitersStep(c)

\* line 227 resumes and line 226 finds the lock free
SyncSpinWake(c) ==
  /\ pc[c] = "sync_spin"
  /\ LockFree
  /\ SyncEnter(c)
  /\ UNCHANGED <<maximumInFlight, remote, calls, fetchedAtInit, forced,
                 fetchFailed>>
  /\ WaitersStep(c)

\* mutation of SyncUpdate1Done: update() never stores more than currentNumber
SyncUpdate1DoneClamped(c) ==
  /\ pc[c] = "sync_update1"
  /\ SyncLoop(c, currentNumber,
              IF remote > currentNumber THEN currentNumber ELSE remote, 0)
  /\ UNCHANGED <<maximumInFlight, remote, calls, fetchedAtInit, forced,
                 fetchFailed>>
  /\ WaitersStep(c)

\* line 233: the first update() resolves; startTime = nowInSeconds()
SyncUpdate1Done(c) ==
  /\ pc[c] = "sync_update1"
  /\ SyncLoop(c, currentNumber, remote, 0)
  /\ UNCHANGED <<maximumInFlight, remote, calls, fetchedAtInit, forced,
                 fetchFailed>>
  /\ WaitersStep(c)

\* line 243 resumes, update() of line 244 starts
SyncSleepWake(c) ==
  /\ pc[c] = "sync_sleep"
  /\ pc' = [pc EXCEPT ![c] = "sync_update"]
  /\ UNCHANGED <<lastUncommintedNumber, currentNumber, lock, maximumInFlight,
                 remote, elapsed, nextNumber, done, calls, returned,
                 fetchedAtInit, forced, fetchFailed>>
  /\ WaitersStep(c)

\* mutation of SyncUpdateDone: startTime is taken again after every poll
SyncUpdateDoneRestartsClock(c) ==
  /\ pc[c] = "sync_update"
  /\ SyncLoop(c, currentNumber, remote, 0)
  /\ UNCHANGED <<maximumInFlight, remote, calls, fetchedAtInit, forced,
                 fetchFailed>>
  /\ WaitersStep(c)

\* line 244: update() in the poll loop resolves
SyncUpdateDone(c) ==
  /\ pc[c] = "sync_update"
  /\ SyncLoop(c, currentNumber, remote, elapsed[c])
  /\ UNCHANGED <<maximumInFlight, remote, calls, fetchedAtInit, forced,
                 fetchFailed>>
  /\ WaitersStep(c)

\* line 241: the forced initialize() resolves
SyncReinitDone(c) ==
  /\ pc[c] = "sync_reinit"
  /\ SyncLoop(c, InitialCurrent(remote), remote, elapsed[c])
  /\ forced' = TRUE
  /\ UNCHANGED <<maximumInFlight, remote, calls, fetchedAtInit, fetchFailed>>
  /\ WaitersStep(c)

\* mutation of SyncFetchFailed: the catch block forgets the fetched state
SyncFetchFailedResets(c) ==
  /\ pc[c] \in SyncFetchPcs
  /\ lock' = Finally(TRUE)
  /\ pc' = [pc EXCEPT ![c] = "idle"]
  /\ done' = [done EXCEPT ![c] = pc[c]]
  /\ SetElapsed(c, 0)
  /\ fetchFailed' = TRUE
  /\ lastUncommintedNumber' = Null
  /\ currentNumber' = Null
  /\ UNCHANGED <<maximumInFlight, remote, nextNumber, calls, returned,
                 fetchedAtInit, forced>>
  /\ WaitersStep(c)

\* lines 247-251: getInfo() rejects at any await of the try block
SyncFetchFailed(c) ==
  /\ pc[c] \in SyncFetchPcs
  /\ lock' = Finally(TRUE)
  /\ pc' = [pc EXCEPT ![c] = "idle"]
  /\ done' = [done EXCEPT ![c] = pc[c]]
  /\ SetElapsed(c, 0)
  /\ fetchFailed' = TRUE
  /\ UNCHANGED <<lastUncommintedNumber, currentNumber, maximumInFlight, remote,
                 nextNumber, calls, returned, fetchedAtInit, forced>>
  /\ WaitersStep(c)

\* ------------------------------------------------------------ environment
\* nowInSeconds() advances by one while some caller has a startTime
Tick ==
  /\ \E c \in Callers : pc[c] \in TimedPcs /\ ~TimedOut(elapsed[c])
  /\ elapsed' = [c \in Callers |->
                   IF pc[c] \in TimedPcs /\ ~TimedOut(elapsed[c])
                   THEN elapsed[c] + 1 ELSE elapsed[c]]
  /\ UNCHANGED <<lastUncommintedNumber, currentNumber, lock, maximumInFlight,
                 remote, pc, nextNumber, done, calls, returned, fetchedAtInit,
                 forced, fetchFailed, waiters>>

Issued == {returned[i] : i \in 1..Len(returned)}

\* the chain commits the transaction that carries sequence number `remote`;
\* the account is used through this instance only (header, lines 10-11)
RemoteCommit ==
  /\ remote \in Issued
  /\ remote' = remote + 1
  /\ UNCHANGED <<lastUncommintedNumber, currentNumber, lock, maximumInFlight,
                 pc, elapsed, nextNumber, done, calls, returned, fetchedAtInit,
                 forced, fetchFailed, waiters>>

Next ==
  \/ \E c \in Callers : AllocCall(c)
  \/ \E c \in Callers : AllocSpinWake(c)
  \/ \E c \in Callers : AllocInitDone(c)
  \/ \E c \in Callers : AllocUpdate1Done(c)
  \/ \E c \in Callers : AllocSleepWake(c)
  \/ \E c \in Callers : AllocReinitDone(c)
  \/ \E c \in Callers : AllocUpdateDone(c)
  \/ \E c \in Callers : AllocFetchFailed(c)
  \/ \E c \in Callers : SyncCall(c)
  \/ \E c \in Callers : SyncSpinWake(c)
  \/ \E c \in Callers : SyncUpdate1Done(c)
  \/ \E c \in Callers : SyncSleepWake(c)
  \/ \E c \in Callers : SyncUpdateDone(c)
  \/ \E c \in Callers : SyncReinitDone(c)
  \/ \E c \in Callers : SyncFetchFailed(c)
  \/ Tick
  \/ RemoteCommit

Spec == Init /\ [][Next]_vars

\* the caller inside a try block resumes: its timer fires or its getInfo()
\* settles, with a value or with a rejection
HolderStep(c) ==
  \/ AllocInitDone(c) \/ AllocUpdate1Done(c) \/ AllocSleepWake(c)
  \/ AllocReinitDone(c) \/ AllocUpdateDone(c) \/ AllocFetchFailed(c)
  \/ SyncUpdate1Done(c) \/ SyncSleepWake(c) \/ SyncUpdateDone(c)
  \/ SyncReinitDone(c) \/ SyncFetchFailed(c)

\* sleep() and getInfo() settle and nowInSeconds() advances; nothing is
\* assumed about the chain committing or about callers rechecking the lock
Fairness ==
  /\ WF_vars(Tick)
  /\ WF_vars(\E c \in Callers : HolderStep(c))

FairSpec == Spec /\ Fairness

\* ------------------------------------------------------------- properties
\* some call returns to its caller in this step
CallReturns ==
  \/ \E c \in Callers : pc[c] # "idle" /\ pc'[c] = "idle"
  \/ calls' # calls /\ pc' = pc

\* some nextSequenceNumber() issues a number in this step
Issues == Len(returned') > Len(returned)

Distinct(seq) == \A i, j \in 1..Len(seq) : i # j => seq[i] # seq[j]

\* C1: while every fetch succeeds and no forced reinitialization happens, the
\* numbers issued, in the order the calls leave the critical section, are
\* v, v+1, v+2, ... with v the value fetched at initialization.
C1_ConsecutiveFromInit ==
  (~forced /\ ~fetchFailed /\ returned # <<>>) =>
     /\ returned[1] = fetchedAtInit
     /\ \A i \in 1..(Len(returned) - 1) : returned[i + 1] = returned[i] + 1

C1_Witness ==
  /\ ~forced /\ ~fetchFailed
  /\ Len(returned) >= 2
  /\ \E c \in Callers : pc[c] = "alloc_spin"

\* C2 as stated: no two successful nextSequenceNumber() calls ever return the
\* same number, in every run.
C2_UniqueAlways == Distinct(returned)

\* C2 amended: no two successful nextSequenceNumber() calls return the same
\* number as long as no forced reinitialization has happened.
C2_UniqueUnlessForced == ~forced => Distinct(returned)

C2_Witness ==
  /\ ~forced /\ fetchFailed
  /\ Len(returned) >= 2
  /\ remote > returned[1]

\* C3: the number of callers between lock = true and their finally block is
\* 0 or 1, and it is 1 exactly when lock is true.
C3_MutualExclusion ==
  Cardinality({c \in Callers : InCS(c)}) = IF lock THEN 1 ELSE 0

C3_Witness ==
  /\ lock
  /\ \E c \in Callers : InCS(c)
  /\ Cardinality({c \in Callers : pc[c] \in {"alloc_spin", "sync_spin"}}) >= 2

\* C4: right after a nextSequenceNumber() call has issued a number,
\* currentNumber - lastUncommintedNumber <= maximumInFlight.
C4_WindowAfterAllocate ==
  [][Issues => currentNumber' - lastUncommintedNumber' <= maximumInFlight]_vars

C4_Witness ==
  /\ returned # <<>>
  /\ ~lock
  /\ maximumInFlight = 2
  /\ currentNumber - lastUncommintedNumber = maximumInFlight

\* C5: once both fields are set, currentNumber >= lastUncommintedNumber after
\* every completed nextSequenceNumber() or synchronize().
C5_LocalNotBelowConfirmed ==
  [][(CallReturns /\ currentNumber' # Null)
       => currentNumber' >= lastUncommintedNumber']_vars

\* caller c leaves the try block of synchronize() in this step
SyncExits(c) == pc[c] \in SyncCS /\ pc'[c] = "idle"

\* caller c leaves the try block of nextSequenceNumber() through catch
AllocThrows(c) == pc[c] \in AllocFetchPcs /\ done'[c] = pc[c] /\ pc'[c] = "idle"

\* a synchronize() call returns on line 223 in this step
SyncFastReturn == calls' # calls /\ pc' = pc /\ ~Issues

C7_GuardReleased ==
  [][/\ ((\E c \in Callers : InCS(c) /\ pc'[c] = "idle") \/ Issues) => ~lock'
     /\ lock' => \E c \in Callers : InCS(c)']_vars

C7_Witness ==
  /\ ~lock
  /\ \E c \in Callers : done[c] \in AllocFetchPcs \cup SyncFetchPcs /\ pc[c] = "idle"
  /\ \E c \in Callers : pc[c] \in {"alloc_spin", "sync_spin"}

\* C8: a fetch that fails inside the try block of nextSequenceNumber() makes
\* the call return 0 with the lock released, both fields as they were and no
\* number issued.
C8_AllocFailureReturnsSentinel ==
  [][\A c \in Callers : AllocThrows(c)
        => /\ nextNumber'[c] = 0
           /\ ~lock'
           /\ currentNumber' = currentNumber
           /\ lastUncommintedNumber' = lastUncommintedNumber
           /\ returned' = returned]_vars

C8_Witness ==
  /\ ~lock
  /\ currentNumber > 0
  /\ \E c \in Callers : done[c] = "alloc_update1" /\ nextNumber[c] = 0
  /\ \E c \in Callers : done[c] = "alloc_reinit" /\ nextNumber[c] = 0

\* C9 (Scenario D): a failed lazy initialization returns 0, frees the lock
\* and leaves both fields null; the nextSequenceNumber() whose initialization
\* fetch then answers v returns v.
C9_InitFailureThenRetry ==
  [][\A c \in Callers : (pc[c] = "alloc_init" /\ pc'[c] = "idle")
        => IF done'[c] = "alloc_init"
           THEN /\ nextNumber'[c] = 0
                /\ ~lock'
                /\ currentNumber' = Null
                /\ lastUncommintedNumber' = Null
           ELSE /\ nextNumber'[c] = remote
                /\ returned' = <<remote>>
                /\ lastUncommintedNumber' = remote
                /\ ~lock']_vars

C9_Witness ==
  \E c, d \in Callers :
     /\ done[c] = "alloc_init" /\ nextNumber[c] = 0
     /\ done[d] = "alloc" /\ nextNumber[d] = 5
     /\ returned = <<5>>
     /\ ~lock

\* C10: while a synchronize() call is between lock = true and its finally
\* block, no number is issued and currentNumber is changed by nothing but
\* the forced initialize() of that call.
C10_SyncBarrier ==
  [][\A c \in Callers : pc[c] \in SyncCS
        => /\ ~Issues
           /\ currentNumber' # currentNumber
                => pc[c] = "sync_reinit" /\ pc'[c] # "sync_reinit"]_vars

C10_Witness ==
  \E c, d \in Callers :
     /\ pc[c] = "sync_reinit"
     /\ pc[d] = "alloc_spin"
     /\ returned # <<>>

\* awaits of nextSequenceNumber() that follow a full window (lines 112-124)
WindowWaitPcs == {"alloc_update1", "alloc_sleep", "alloc_reinit", "alloc_update"}

\* C11 (Scenarios A and B): a nextSequenceNumber() that found the window full
\* issues a number only in the step in which a fetch resolves and leaves
\* gap < maximumInFlight (always so after a forced initialize()); a fetch that
\* leaves gap >= maximumInFlight sends it back to sleep; an update() continues
\* the counter. With maximumInFlight = 2 and 5, 6 issued, the third call
\* issues nothing while the chain is seen at 5 and returns 7, leaving
\* currentNumber = 8, once an update() sees the chain at 6 or more.
C11_WindowWait ==
  [][\A c \in Callers : pc[c] \in WindowWaitPcs =>
        /\ Issues =>
             /\ pc[c] \in {"alloc_update1", "alloc_update", "alloc_reinit"}
             /\ lastUncommintedNumber' = remote
             /\ nextNumber'[c] - remote < maximumInFlight
             /\ pc[c] = "alloc_reinit" => nextNumber'[c] = remote
             /\ pc[c] # "alloc_reinit" => nextNumber'[c] = currentNumber
        /\ (pc[c] \in {"alloc_update1", "alloc_update"} /\ pc'[c] # pc[c]
              /\ done'[c] = "none")
             => /\ currentNumber - remote >= maximumInFlight
                /\ pc'[c] = "alloc_sleep"
                /\ ~Issues
        /\ (maximumInFlight = 2 /\ returned = <<5, 6>> /\ ~forced)
             => /\ (pc'[c] = "idle" /\ done'[c] = "alloc" /\ pc[c] # "alloc_reinit")
                   => /\ remote >= 6
                      /\ returned' = <<5, 6, 7>>
                      /\ currentNumber' = 8
                /\ remote = 5 => (~Issues \/ pc[c] = "alloc_reinit")]_vars

C11_Witness ==
  /\ maximumInFlight = 2
  /\ returned = <<5, 6, 7>>
  /\ currentNumber = 8
  /\ lastUncommintedNumber = 6
  /\ ~forced /\ ~fetchFailed

\* C12 (Scenario C): with maximumInFlight = 2, the chain fixed at 5 and 5, 6
\* issued, the blocked nextSequenceNumber() wakes with more than maxWaitTime
\* elapsed, calls initialize() instead of update(), which stores 5 in both
\* fields, and the call hands out 5 a second time.
C12_StallReissues ==
  [][\A c \in Callers :
        /\ (pc[c] = "alloc_sleep" /\ pc'[c] # pc[c])
             => pc'[c] = IF elapsed[c] > maxWaitTime THEN "alloc_reinit"
                                                     ELSE "alloc_update"
        /\ (pc[c] = "alloc_reinit" /\ pc'[c] # pc[c] /\ done'[c] # pc[c]
              /\ maximumInFlight = 2 /\ returned = <<5, 6>> /\ remote = 5)
             => /\ returned' = <<5, 6, 5>>
                /\ nextNumber'[c] = 5
                /\ currentNumber' = 6
                /\ lastUncommintedNumber' = 5
                /\ forced'
                /\ ~lock']_vars

C12_Witness ==
  /\ maximumInFlight = 2
  /\ remote = 5
  /\ returned = <<5, 6, 5>>
  /\ currentNumber = 6 /\ lastUncommintedNumber = 5
  /\ forced /\ ~lock

\* caller c leaves the try block of synchronize() through catch
SyncThrows(c) == pc[c] \in SyncFetchPcs /\ done'[c] = pc[c] /\ pc'[c] = "idle"

\* C13: a fetch that fails inside the try block of synchronize() makes the
\* call return normally with the lock released and both fields as they were.
C13_SyncFailureSwallowed ==
  [][\A c \in Callers : SyncThrows(c)
        => /\ ~lock'
           /\ currentNumber' = currentNumber
           /\ lastUncommintedNumber' = lastUncommintedNumber
           /\ returned' = returned
           /\ nextNumber' = nextNumber]_vars

C13_Witness ==
  /\ ~lock
  /\ currentNumber # lastUncommintedNumber
  /\ \E c \in Callers : done[c] = "sync_update1" /\ pc[c] = "idle"
  /\ \E c \in Callers : done[c] = "sync_reinit" /\ pc[c] = "idle"

\* C14 as stated: synchronize() called on a freshly constructed instance
\* returns with both fields set to the fetched value.
C14_SyncInitializes ==
  [][(SyncFastReturn /\ currentNumber = Null /\ lastUncommintedNumber = Null)
       => (currentNumber' = remote /\ lastUncommintedNumber' = remote)]_vars

\* C14 amended: synchronize() called while both fields are null returns on
\* line 223 without a fetch and leaves both null and the lock untouched; no
\* synchronize() is ever past line 223 while the fields are null, which only
\* the lazy initialize() of nextSequenceNumber() ends.
C14_SyncLeavesNull ==
  [][/\ (SyncFastReturn /\ currentNumber = Null /\ lastUncommintedNumber = Null)
          => /\ currentNumber' = Null
             /\ lastUncommintedNumber' = Null
             /\ lock' = lock
             /\ \E c \in Callers : done'[c] = "sync_fast"
     /\ \A c \in Callers :
          pc'[c] \in SyncCS \cup {"sync_spin"} => currentNumber' # Null
     /\ (currentNumber = Null /\ currentNumber' # Null)
          => \E c \in Callers : pc[c] = "alloc_init"]_vars

C14_Witness ==
  /\ currentNumber = Null /\ lastUncommintedNumber = Null
  /\ ~lock /\ ~fetchFailed
  /\ calls > 0
  /\ \A c \in Callers : pc[c] = "idle"
  /\ \E c \in Callers : done[c] = "sync_fast"

\* caller c runs lines 104-112 of nextSequenceNumber() in this step
AllocEnters(c) ==
  \/ pc[c] = "alloc_spin" /\ pc'[c] # pc[c]
  \/ pc[c] = "idle" /\ pc'[c] \in AllocCS
  \/ pc[c] = "idle" /\ done'[c] = "alloc" /\ calls' # calls /\ pc' = pc /\ Issues
       /\ nextNumber'[c] = returned'[Len(returned')]

\* C15: the lazy initialize() that resolves with v is the only fetch of its
\* call, which returns v and leaves lastUncommintedNumber = v and
\* currentNumber = v + 1; on initialized fields with
\* gap < maximumInFlight the call issues in the step that takes the lock: no
\* await, no fetch, lastUncommintedNumber unchanged.
C15_FetchOnlyWhenNeeded ==
  [][\A c \in Callers :
        /\ (pc[c] = "alloc_init" /\ pc'[c] # pc[c] /\ done'[c] # "alloc_init")
             => /\ pc'[c] = "idle"
                /\ nextNumber'[c] = remote
                /\ lastUncommintedNumber' = remote
                /\ currentNumber' = remote + 1
        /\ (AllocEnters(c) /\ currentNumber # Null
              /\ currentNumber - lastUncommintedNumber < maximumInFlight)
             => /\ pc'[c] = "idle"
                /\ Issues
                /\ nextNumber'[c] = currentNumber
                /\ currentNumber' = currentNumber + 1
                /\ lastUncommintedNumber' = lastUncommintedNumber
                /\ ~lock'
        /\ (AllocEnters(c) /\ pc'[c] = "alloc_init") => currentNumber = Null]_vars

C15_Witness ==
  /\ ~fetchFailed /\ ~forced /\ ~lock
  /\ returned = <<5, 6>>
  /\ lastUncommintedNumber = 5
  /\ currentNumber = 7
  /\ remote = 6

\* C16: a forced initialize() stores the one fetched value in both fields and
\* is the only fetch of its loop iteration: in nextSequenceNumber() the window
\* is then not full and the call issues the fetched value; in synchronize()
\* the fields are equal and the call returns.
C16_ForcedReinit ==
  [][\A c \in Callers :
        /\ (pc[c] = "alloc_reinit" /\ pc'[c] # pc[c] /\ done'[c] # pc[c])
             => /\ pc'[c] = "idle"
                /\ lastUncommintedNumber' = remote
                /\ nextNumber'[c] = remote
                /\ currentNumber' = remote + 1
                /\ returned' = Append(returned, remote)
        /\ (pc[c] = "sync_reinit" /\ pc'[c] # pc[c] /\ done'[c] # pc[c])
             => /\ pc'[c] = "idle"
                /\ done'[c] = "sync"
                /\ lastUncommintedNumber' = remote
                /\ currentNumber' = remote
                /\ returned' = returned
        /\ pc'[c] \in {"alloc_reinit", "sync_reinit"} /\ pc'[c] # pc[c]
             => pc[c] \in {"alloc_sleep", "sync_update", "sync_update1"}]_vars

C16_Witness ==
  /\ forced /\ ~fetchFailed /\ ~lock
  /\ returned = <<5, 5>>
  /\ currentNumber = 5 /\ lastUncommintedNumber = 5
  /\ \E c \in Callers : done[c] = "sync" /\ pc[c] = "idle"

\* awaits of update()
UpdatePcs == {"alloc_update1", "alloc_update", "sync_update1", "sync_update"}

\* the update() awaited by caller c resolves in this step
UpdateResolves(c) == pc[c] \in UpdatePcs /\ pc'[c] # pc[c] /\ done'[c] # pc[c]

\* C17: update() overwrites lastUncommintedNumber with the fetched value,
\* whatever currentNumber is, and touches neither currentNumber nor the lock
\* (they change in the same step only by the issue and the finally block that
\* follow it); once set, currentNumber changes only by the +1 of an issuing
\* nextSequenceNumber() or by a forced initialize().
C17_UpdateFrame ==
  [][/\ \A c \in Callers : UpdateResolves(c)
          => /\ lastUncommintedNumber' = remote
             /\ currentNumber' = IF Issues THEN currentNumber + 1 ELSE currentNumber
             /\ Issues => pc[c] \in AllocCS /\ pc'[c] = "idle"
             /\ lock' # lock => pc'[c] = "idle"
     /\ (currentNumber # Null /\ currentNumber' # currentNumber)
          => \/ Issues /\ currentNumber' = currentNumber + 1
             \/ \E c \in Callers : /\ pc[c] \in {"alloc_reinit", "sync_reinit"}
                                    /\ pc'[c] = "idle"
                                    /\ currentNumber' \in {remote, remote + 1}]_vars

C17_Witness ==
  /\ lastUncommintedNumber > currentNumber
  /\ currentNumber # Null
  /\ lock
  /\ \E c \in Callers : pc[c] = "sync_sleep"

\* C18: synchronize() called while lastUncommintedNumber = currentNumber
\* (both null included, the lock held by another caller included) returns on
\* line 223: it does not wait for or take the lock, starts no fetch and
\* changes no state; a synchronize() goes past line 223 only when the fields
\* differ.
C18_SyncFastPath ==
  [][/\ SyncFastReturn
          => /\ lastUncommintedNumber = currentNumber
             /\ UNCHANGED <<lastUncommintedNumber, currentNumber, lock, remote,
                            pc, elapsed, nextNumber, returned>>
     /\ \A c \in Callers :
          (calls' # calls /\ pc'[c] \in {"sync_spin", "sync_update1"}
             /\ pc[c] = "idle")
           => lastUncommintedNumber # currentNumber]_vars

C18_Witness ==
  /\ lock
  /\ lastUncommintedNumber = Null /\ currentNumber = Null
  /\ ~fetchFailed
  /\ calls >= 3
  /\ \E c \in Callers : pc[c] = "alloc_init"
  /\ Cardinality({c \in Callers : done[c] = "sync_fast" /\ pc[c] = "idle"}) >= 2

\* caller c starts the fetch awaited at p in this step
StartsFetch(c, p) == pc'[c] = p /\ pc[c] # p

\* C19 as stated: every fetch nextSequenceNumber() makes on a full window
\* follows a sleep(sleepTime).
C19_FetchAfterSleep ==
  [][\A c \in Callers :
        (\E p \in {"alloc_update1", "alloc_update", "alloc_reinit"} : StartsFetch(c, p))
          => pc[c] = "alloc_sleep"]_vars

\* C19 amended: on finding the window full the call starts update() at once
\* (line 112) and records startTime when it resolves; from then on it sleeps
\* before every update() or forced initialize() and re-checks the window
\* after each.
C19_FetchAfterSleepInLoop ==
  [][\A c \in Callers :
        /\ (StartsFetch(c, "alloc_update") \/ StartsFetch(c, "alloc_reinit"))
             => pc[c] = "alloc_sleep"
        /\ StartsFetch(c, "alloc_update1")
             => /\ pc[c] \in {"idle", "alloc_spin", "alloc_init"}
                /\ currentNumber' - lastUncommintedNumber' >= maximumInFlight
        /\ (pc'[c] = "alloc_sleep" /\ pc[c] # "alloc_sleep")
             => /\ pc[c] \in {"alloc_update1", "alloc_update", "alloc_reinit"}
                /\ currentNumber' - lastUncommintedNumber' >= maximumInFlight
                /\ pc[c] = "alloc_update1" => elapsed'[c] = 0]_vars

C19_Witness ==
  \E c \in Callers :
     /\ pc[c] = "alloc_update"
     /\ elapsed[c] > 0
     /\ currentNumber - lastUncommintedNumber >= maximumInFlight

\* this step assigns lastUncommintedNumber or currentNumber a new value
FieldsChange ==
  <<lastUncommintedNumber, currentNumber>>' # <<lastUncommintedNumber, currentNumber>>

\* caller c is the only caller that moves in this step
OnlyMoves(c) == \A d \in Callers \ {c} : pc'[d] = pc[d]

\* caller c resumes inside its try block, the lock being held by c alone
HolderResumes(c) ==
  /\ lock
  /\ InCS(c) /\ pc'[c] # pc[c]
  /\ \A d \in Callers \ {c} : ~InCS(d)
  /\ OnlyMoves(c)

\* caller c finds the lock free, sets it (line 104) and issues a number in the
\* same synchronous run, releasing the lock in finally
TakesLockAndIssues(c) ==
  /\ ~lock /\ ~lock'
  /\ \A d \in Callers : ~InCS(d)
  /\ pc[c] \in {"idle", "alloc_spin"} /\ pc'[c] = "idle"
  /\ Issues
  /\ OnlyMoves(c)

\* C20: every step that changes lastUncommintedNumber or currentNumber is a
\* step of the caller holding the lock: either the one caller inside a try
\* block resuming while lock is true, or a caller that has just set the free
\* lock itself and issues before its first await.
C20_WrittenByHolder ==
  [][FieldsChange =>
       \E c \in Callers : HolderResumes(c) \/ TakesLockAndIssues(c)]_vars

C20_Witness ==
  /\ ~lock
  /\ \E c \in Callers : pc[c] = "alloc_spin"
  /\ \E d \in Callers : pc[d] = "idle" /\ done[d] = "sync"
  /\ lastUncommintedNumber # Null
  /\ lastUncommintedNumber > fetchedAtInit
  /\ currentNumber = lastUncommintedNumber

\* callers suspended at line 101 or 227
SpinPcs == {"alloc_spin", "sync_spin"}

\* waiters[i] began to wait before waiters[j] whenever i < j
WaitsBefore(d, c) ==
  \E i, j \in 1..Len(waiters) : i < j /\ waiters[i] = d /\ waiters[j] = c

\* caller c gets past line 104 or 230 in this step: by a fresh call or by the
\* recheck of its spin loop
TakesLock(c) ==
  /\ AllocCall(c) \/ AllocSpinWake(c) \/ SyncSpinWake(c)
  /\ pc'[c] \in AllocCS \cup SyncCS \/ Issues

C22_SyncTerminates ==
  \A c \in Callers : (pc[c] \in SyncCS) ~> (pc[c] = "idle" /\ ~lock)

C22_Witness ==
  \E c \in Callers :
     /\ pc[c] = "idle" /\ done[c] = "sync"
     /\ ~lock
     /\ forced
     /\ calls = 2 /\ Len(returned) = 1
     /\ lastUncommintedNumber = currentNumber
     /\ remote = returned[1]

\* C23: under FairSpec a nextSequenceNumber() that has taken the lock returns
\* and leaves the lock released: a window that stays full is emptied by the
\* initialize() of the maxWaitTime branch, since maximumInFlight >= 1.
C23_AllocTerminates ==
  \A c \in Callers : (pc[c] \in AllocCS) ~> (pc[c] = "idle" /\ ~lock)

C23_Witness ==
  \E c \in Callers :
     /\ pc[c] = "idle" /\ done[c] = "alloc"
     /\ ~lock
     /\ forced
     /\ maximumInFlight >= 1
     /\ calls = 2 /\ Len(returned) = 2
     /\ returned[2] = returned[1]
     /\ remote = returned[1]

\* awaits of the initialize() of the maxWaitTime branches
ReinitPcs == {"alloc_reinit", "sync_reinit"}

\* the forced initialize() awaited by caller c resolves in this step
ReinitResolves(c) == pc[c] \in ReinitPcs /\ pc'[c] # pc[c] /\ done'[c] # pc[c]

\* C24: once set, currentNumber changes to anything but currentNumber + 1
\* only when a forced initialize() resolves; a forced initialize() is started
\* only with nowInSeconds() - startTime > maxWaitTime; and a caller in a wait
\* loop with at most maxWaitTime elapsed goes on with update() and leaves
\* currentNumber alone or, leaving the loop, increments it.
C24_ResetOnlyWhenStalled ==
  [][/\ (currentNumber # Null
           /\ currentNumber' \notin {currentNumber, currentNumber + 1})
          => \E c \in Callers : ReinitResolves(c) /\ elapsed[c] > maxWaitTime
     /\ \A c \in Callers :
          /\ (pc'[c] \in ReinitPcs /\ pc'[c] # pc[c])
               => elapsed[c] > maxWaitTime
          /\ (pc[c] \in TimedPcs /\ pc'[c] # pc[c]
                 /\ elapsed[c] <= maxWaitTime)
               => /\ pc'[c] \notin ReinitPcs
                  /\ pc[c] = "alloc_sleep" => pc'[c] = "alloc_update"
                  /\ currentNumber' \in {currentNumber, currentNumber + 1}]_vars

C24_Witness ==
  /\ forced /\ ~lock
  /\ maximumInFlight = 2
  /\ returned = <<5, 6>>
  /\ currentNumber = 5 /\ lastUncommintedNumber = 5
  /\ \E c \in Callers : pc[c] = "idle" /\ done[c] = "sync"

\* caller c alone moves: its spin loop finds the lock free
Rechecks(c) ==
  /\ AllocSpinWake(c) \/ SyncSpinWake(c)
  /\ OnlyMoves(c)

\* caller c alone moves: the sleep or fetch it awaits in its try block settles
HolderAdvances(c) == HolderStep(c) /\ OnlyMoves(c)

\* C25: no deadlock on the lock. With the lock free and callers spinning,
\* some spinning caller passes line 100 or 226 on its next recheck; with the
\* lock held, its holder is at an await of its try block and can go on by
\* itself, whatever the waiting callers do.
C25_NoDeadlockOnLock ==
  /\ (~lock /\ \E c \in Callers : pc[c] \in SpinPcs)
       => \E c \in Callers : pc[c] \in SpinPcs /\ ENABLED Rechecks(c)
  /\ lock => \E c \in Callers : InCS(c) /\ ENABLED HolderAdvances(c)

C25_Witness ==
  \E c, d \in Callers :
     /\ lock
     /\ pc[c] = "alloc_sleep"
     /\ elapsed[c] > maxWaitTime
     /\ pc[d] = "sync_spin"

\* the two fields are both null or both set
BothOrNone == (lastUncommintedNumber = Null) <=> (currentNumber = Null)

\* C26: lastUncommintedNumber and currentNumber are both null or both set,
\* a field that is set is never null again, and no caller awaits update()
\* while currentNumber is null.
C26_InitializedTogether ==
  [][/\ BothOrNone /\ BothOrNone'
     /\ currentNumber # Null => currentNumber' # Null
     /\ lastUncommintedNumber # Null => lastUncommintedNumber' # Null
     /\ \A c \in Callers :
          (pc[c] \in UpdatePcs => currentNumber # Null)
          /\ (pc'[c] \in UpdatePcs => currentNumber' # Null)]_vars

C26_Witness ==
  /\ fetchFailed
  /\ currentNumber # Null /\ lastUncommintedNumber # Null
  /\ \E c, d \in Callers :
        /\ pc[c] = "sync_update1"
        /\ pc[d] = "idle" /\ done[d] = "alloc_init"
====
